---- MODULE Spec2Model ----
(***************************************************************************)
(* Model of the Valora backend quote pipeline.                             *)
(*                                                                         *)
(* The repository holds two revisions of the Express backend that carry    *)
(* the session / retry / scoring logic:                                    *)
(*   "ix"  src/backend/index.js lines 141-413 (refreshSession, yahooFetch, *)
(*         fetchYahooQuote, computeScore, app.get('/api/quote'))           *)
(*   "p3"  src/unnamed/part_003 (refreshYahooSession, getYahooSession,     *)
(*         fetchYahooQuoteViaHttp, computeScore, app.get('/api/quote'))    *)
(* The variable impl selects the revision a behaviour runs; it is chosen   *)
(* in Init and never changes.                                              *)
(*                                                                         *)
(* JavaScript runs a handler without interruption between two awaits on    *)
(* network I/O, so one action is the code between two such awaits.         *)
(* Time is counted in minutes and advances in steps of Granule.  The code  *)
(* only ever compares a stored instant with Date.now(), so the model keeps *)
(* the distance to Date.now() instead of the instant: a session's          *)
(* expiresIn is max(0, expiresAt - Date.now()), a cache entry's age is     *)
(* Date.now() - start, no longer counted once the entry is stale.          *)
(* Numbers are exact rationals <<n, d>> (d > 0, lowest terms).             *)
(***************************************************************************)
EXTENDS Integers, Sequences, FiniteSets, TLC

VARIABLES ui, impl, cache, session, req, score

vars == <<ui, impl, cache, session, req, score>>

Impls == {"ix", "p3"}

(***************************************************************************)
(* Bounds of the model.                                                    *)
(***************************************************************************)
MaxPE == 5
\* searches submitted in the page
MaxSearches == 3

(***************************************************************************)
(* Program constants (minutes, counts).                                    *)
(***************************************************************************)
CacheTtl == 5
CacheMax == 100
SessionTtl == 30
FailedSessionTtl == 5
MaxAttempt == 2
NeutralScore == 50

Granule == CacheTtl

(***************************************************************************)
(* JavaScript values: a number (an exact rational <<n, d>>), null,         *)
(* undefined, and a non-numeric string.                                    *)
(***************************************************************************)
Num(q) == [t |-> "number", v |-> q]
JNull == [t |-> "null", v |-> <<0, 1>>]
JUndef == [t |-> "undefined", v |-> <<0, 1>>]
JStr == [t |-> "string", v |-> <<0, 1>>]

\* typeof x === 'number'
IsNumber(x) == x.t = "number"

(***************************************************************************)
(* Exact rationals.                                                        *)
(***************************************************************************)
RECURSIVE Gcd(_, _)
Gcd(a, b) == IF b = 0 THEN a ELSE Gcd(b, a % b)

Abs(n) == IF n < 0 THEN -n ELSE n

RNorm(q) == LET g == Gcd(Abs(q[1]), q[2]) IN <<q[1] \div g, q[2] \div g>>

RInt(n) == <<n, 1>>
\* 1 / q, for q > 0
RInv(q) == <<q[2], q[1]>>
RAdd(p, q) == RNorm(<<p[1] * q[2] + q[1] * p[2], p[2] * q[2]>>)
RMulInt(p, k) == RNorm(<<p[1] * k, p[2]>>)
RDivInt(p, k) == RNorm(<<p[1], p[2] * k>>)
RLe(p, q) == p[1] * q[2] <= q[1] * p[2]
RLt(p, q) == p[1] * q[2] < q[1] * p[2]
RMin(p, q) == IF RLe(p, q) THEN p ELSE q
RMax(p, q) == IF RLe(p, q) THEN q ELSE p
\* Math.round: the nearest integer, a half rounded towards +infinity
RRound(p) == (2 * p[1] + p[2]) \div (2 * p[2])

RECURSIVE RSum(_)
RSum(s) == IF s = <<>> THEN RInt(0) ELSE RAdd(s[1], RSum(Tail(s)))

(***************************************************************************)
(* computeScore, src/backend/index.js 350-369.                             *)
(***************************************************************************)
IxReciprocals(pe, forwardPE) ==
    (IF IsNumber(pe) /\ RLt(RInt(0), pe.v) THEN <<RInv(pe.v)>> ELSE <<>>)
    \o (IF IsNumber(forwardPE) /\ RLt(RInt(0), forwardPE.v)
        THEN <<RInv(forwardPE.v)>> ELSE <<>>)

\* faulty variant: the score follows the ratios, not their reciprocals
IxComputeScoreDirect(pe, forwardPE) ==
    IF ~IsNumber(pe) /\ ~IsNumber(forwardPE) THEN RInt(NeutralScore)
    ELSE LET values == (IF IsNumber(pe) /\ RLt(RInt(0), pe.v) THEN <<pe.v>> ELSE <<>>)
                       \o (IF IsNumber(forwardPE) /\ RLt(RInt(0), forwardPE.v)
                           THEN <<forwardPE.v>> ELSE <<>>)
         IN IF Len(values) = 0 THEN RInt(NeutralScore)
            ELSE LET average == RDivInt(RSum(values), Len(values)) IN
                 RMax(RInt(0), RMin(RInt(100), RInt(RRound(average))))

\* faulty variant: the result is not clamped
IxComputeScoreNoClamp(pe, forwardPE) ==
    IF ~IsNumber(pe) /\ ~IsNumber(forwardPE) THEN RInt(NeutralScore)
    ELSE LET values == IxReciprocals(pe, forwardPE) IN
         IF Len(values) = 0 THEN RInt(NeutralScore)
         ELSE LET average == RDivInt(RSum(values), Len(values)) IN
              RInt(RRound(RMulInt(average, 100)))

IxComputeScore(pe, forwardPE) ==
    IF ~IsNumber(pe) /\ ~IsNumber(forwardPE) THEN RInt(NeutralScore)
    ELSE LET values == IxReciprocals(pe, forwardPE) IN
         IF Len(values) = 0 THEN RInt(NeutralScore)
         ELSE LET average == RDivInt(RSum(values), Len(values)) IN
              RMax(RInt(0), RMin(RInt(100), RInt(RRound(RMulInt(average, 100)))))

(***************************************************************************)
(* computeScore, src/unnamed/part_003 233-241.                             *)
(***************************************************************************)
\* 1 / Math.max(x, 0.0001)
P3Inverse(x) == RInv(RMax(x, <<1, 10000>>))

P3ComputeScore(pe, forwardPE) ==
    IF IsNumber(pe) /\ IsNumber(forwardPE)
    THEN LET invPE == P3Inverse(pe.v)
             invForwardPE == P3Inverse(forwardPE.v)
         IN RMin(RInt(100), RMax(RInt(0), RMulInt(RAdd(invPE, invForwardPE), 10)))
    ELSE RInt(NeutralScore)

computeScore(i, pe, forwardPE) ==
    IF i = "ix" THEN IxComputeScore(pe, forwardPE) ELSE P3ComputeScore(pe, forwardPE)

(***************************************************************************)
(* Strings are sequences of one-character strings.                         *)
(***************************************************************************)
UpperChar(c) == CASE c = "a" -> "A" [] c = "b" -> "B" [] OTHER -> c

\* String.prototype.toUpperCase
ToUpperCase(s) == [i \in 1..Len(s) |-> UpperChar(s[i])]

RECURSIVE TrimStart(_)
TrimStart(s) == IF s # <<>> /\ Head(s) = " " THEN TrimStart(Tail(s)) ELSE s

RECURSIVE TrimEnd(_)
TrimEnd(s) == IF s # <<>> /\ s[Len(s)] = " " THEN TrimEnd(SubSeq(s, 1, Len(s) - 1)) ELSE s

\* String.prototype.trim
Trim(s) == TrimEnd(TrimStart(s))

(***************************************************************************)
(* req.query.symbol: undefined, a string, or an array of strings (a        *)
(* repeated or bracketed parameter); s is the string, or the array's       *)
(* toString().                                                             *)
(***************************************************************************)
Query(kind, s) == [kind |-> kind, s |-> s]

QueryInputs ==
    { Query("undefined", <<>>), Query("string", <<>>), Query("string", <<"a">>),
      Query("string", <<"A">>), Query("array", <<"a">>) }

\* faulty variant: every query value passes the test
AlwaysTruthy(q) == TRUE

\* JavaScript truthiness of the query value
Truthy(q) == q.kind = "array" \/ (q.kind = "string" /\ q.s # <<>>)

\* faulty variant: the key built from the symbol as typed
CacheKeyRaw(symbol) == <<"quote:">> \o symbol

\* `quote:${symbol.toUpperCase()}`
CacheKey(symbol) == <<"quote:">> \o ToUpperCase(symbol)

(***************************************************************************)
(* The response cache: new LRU({ max: 100, ttl: 5 minutes }).  A sequence  *)
(* of entries, least recently used first.                                  *)
(***************************************************************************)
\* lru-cache: an entry is stale once its age exceeds the ttl
CacheStale(e) == e.age > CacheTtl

CacheFind(c, key) == {i \in 1..Len(c) : c[i].key = key}

\* faulty variant: the staleness test inverted
CacheHasStale(c, key) == \E i \in CacheFind(c, key) : CacheStale(c[i])

\* faulty variant: staleness ignored
CacheHasAny(c, key) == CacheFind(c, key) # {}

\* cache.has(key): present and not stale
CacheHas(c, key) == \E i \in CacheFind(c, key) : ~CacheStale(c[i])

\* the value cache.get(key) returns for a present, fresh key
CacheValue(c, key) == c[CHOOSE i \in CacheFind(c, key) : TRUE].value

CacheWithout(c, key) == LET Keep(e) == e.key # key IN SelectSeq(c, Keep)

\* the cache after cache.get(key) on a present, fresh key: most recently used
CacheTouch(c, key) ==
    LET e == c[CHOOSE i \in CacheFind(c, key) : TRUE]
    IN Append(CacheWithout(c, key), e)

\* faulty variant: an existing entry is kept (first write wins)
CacheSetFirstWins(c, key, value) ==
    IF CacheFind(c, key) # {} THEN c
    ELSE Append(c, [key |-> key, value |-> value, age |-> 0])

\* cache.set(key, value): insert or replace, evict the least recently used
CacheSet(c, key, value) ==
    LET put == Append(CacheWithout(c, key), [key |-> key, value |-> value, age |-> 0])
    IN IF Len(put) > CacheMax THEN Tail(put) ELSE put

(***************************************************************************)
(* The session slot.  cookie is "none" (null) or names the response the    *)
(* cookies came from; crumb is "none" (null) or "tok".  cookieBy and       *)
(* crumbBy record which refresh wrote the field last (history only).       *)
(***************************************************************************)
NoRefresh == <<"init", 0>>
OldRefresh == <<"old", 0>>

EmptySession ==
    [cookie |-> "none", crumb |-> "none", expiresIn |-> 0,
     cookieBy |-> NoRefresh, crumbBy |-> NoRefresh]

\* what a refresh found in the slot when it began
PriorOf(sess) ==
    [cookie |-> sess.cookie, crumb |-> sess.crumb, expired |-> sess.expiresIn = 0]

YAHOO_HOSTS == <<"query1.finance.yahoo.com", "query2.finance.yahoo.com">>

(***************************************************************************)
(* What the upstream quote endpoint can answer.                            *)
(***************************************************************************)
Result(symbol, price, pe, forwardPE) ==
    [symbol |-> symbol, regularMarketPrice |-> price, trailingPE |-> pe, forwardPE |-> forwardPE]

NoResult == Result(<<>>, JUndef, JUndef, JUndef)

Price == Num(RInt(150))

Results ==
    { Result(<<"A">>, Price, Num(RInt(25)), Num(RInt(20))),
      Result(<<"a">>, Price, JUndef, JUndef),
      Result(<<>>, Price, Num(RInt(-5)), Num(RInt(20))),
      Result(<<"A">>, Price, Num(RInt(10)), JNull),
      Result(<<"A">>, Price, JStr, Num(<<1, 200>>)),
      Result(<<"A">>, Price, Num(RInt(0)), Num(RInt(0))),
      Result(<<"A">>, JStr, Num(RInt(10)), Num(RInt(20))) }

\* kind: "neterr" (fetch rejects), "http" (a response); body of a 200:
\* "malformed" (response.json() rejects), "empty" (no result record), "result"
Outcome(kind, status, body, result) ==
    [kind |-> kind, status |-> status, body |-> body, result |-> result]

ErrorStatuses == {401, 403, 404, 429, 500}

QuoteOutcomes ==
    {Outcome("neterr", 0, "none", NoResult)}
    \cup {Outcome("http", st, "none", NoResult) : st \in ErrorStatuses}
    \cup {Outcome("http", 200, b, NoResult) : b \in {"malformed", "empty"}}
    \cup {Outcome("http", 200, "result", res) : res \in Results}

NoOutcome == Outcome("none", 0, "none", NoResult)

\* the class of a failed quote request: "auth" (401, 403), "server" (500 and
\* more, network error), "other"; "none" for an answer with status 200
FailureClass(out) ==
    IF out.kind = "neterr" THEN "server"
    ELSE IF out.status \in {401, 403} THEN "auth"
    ELSE IF out.status >= 500 THEN "server"
    ELSE IF out.status = 200 THEN "none" ELSE "other"

\* response.ok
Ok(out) == out.status >= 200 /\ out.status <= 299

(***************************************************************************)
(* One /api/quote request.  The fields from responses on are history: what *)
(* the request found and did, for the properties.  lastOut is the last     *)
(* answer of the quote endpoint and lastHost the index of the host that    *)
(* gave it; tries counts the quote requests sent to the host of sent;      *)
(* firstFail is the class of the first failed quote request; retries and   *)
(* failovers count the retries and host changes the request itself made.   *)
(***************************************************************************)
\* the client slots of the behaviour (fixed by the initial state)
Clients == DOMAIN req

NoCreds == [host |-> "none", cookie |-> "none", crumb |-> "none",
            cookieBy |-> NoRefresh, crumbBy |-> NoRefresh]

IdleReq ==
    [pc |-> "idle", q |-> Query("undefined", <<>>), symbol |-> <<>>,
     attempt |-> 0, hostIndex |-> 0, retry |-> TRUE,
     tag |-> "none", collected |-> "none", threw |-> FALSE, sent |-> NoCreds,
     responses |-> <<>>,
     fresh |-> <<>>, writes |-> <<>>, nRefresh |-> 0, nQuote |-> 0,
     lastOut |-> NoOutcome, lastHost |-> 0, tries |-> 0, malformed |-> FALSE,
     firstFail |-> "none", retries |-> 0, failovers |-> 0,
     refreshSince |-> 0, authExhausted |-> FALSE,
     force |-> FALSE, prior |-> PriorOf(EmptySession), failedRefresh |-> FALSE]

Response(status, error, body) == [status |-> status, error |-> error, body |-> body]

\* res.status(status).json(...): the request is answered
Respond(rq, status, error, body) ==
    [rq EXCEPT !.pc = "done", !.responses = Append(@, Response(status, error, body))]

\* the catch block of app.get('/api/quote'): index.js 394-403, part_003 275-287
\* (status 0: the error carries no status)
HandlerCatch(rq, status) ==
    IF status = 404 THEN Respond(rq, 404, "Ticker not found", <<>>)
    ELSE IF status >= 400 /\ status < 500
         THEN Respond(rq, 400, "Upstream rejected the request", <<>>)
         ELSE Respond(rq, 502, "Failed to fetch quote", <<>>)

\* faulty variant: a missing quote is answered as an upstream failure
HandlerUpstreamFault(rq) == Respond(rq, 502, "Failed to fetch quote", <<>>)

\* if (!quote) return res.status(404)
HandlerNotFound(rq) == Respond(rq, 404, "Ticker not found", <<>>)

\* { ...quote, score }
Scored(quote, sc) ==
    [symbol |-> quote.symbol, price |-> quote.price, pe |-> quote.pe,
     forwardPE |-> quote.forwardPE, score |-> sc]

Quote(symbol, price, pe, forwardPE) ==
    [symbol |-> symbol, price |-> price, pe |-> pe, forwardPE |-> forwardPE]

\* faulty variant: the record is cached and the answer is 502
HandlerSuccessAs502(i, rq, key, quote) ==
    [Respond(rq, 502, "Failed to fetch quote", <<>>) EXCEPT
        !.writes = Append(@, [key |-> key,
                              value |-> Scored(quote, computeScore(i, quote.pe, quote.forwardPE))])]

\* the handler after fetch returned a quote: score it, cache it, answer 200
HandlerPayload(i, quote) == Scored(quote, computeScore(i, quote.pe, quote.forwardPE))

HandlerSuccess(i, rq, key, quote) ==
    LET payload == HandlerPayload(i, quote)
    IN [Respond(rq, 200, "", <<payload>>) EXCEPT
            !.writes = Append(@, [key |-> key, value |-> payload])]

\* history: the unexpired values the cache holds for the request's symbol
\* when the request arrives
FreshValues(c, q) ==
    LET Mine(e) == e.key = <<"quote:">> \o ToUpperCase(q.s) /\ e.age <= CacheTtl
        mine == SelectSeq(c, Mine)
    IN [i \in 1..Len(mine) |-> mine[i].value]

(***************************************************************************)
(* Outcomes of the session endpoints.                                      *)
(***************************************************************************)
\* fc.yahoo.com (part_003) and finance.yahoo.com (index.js): the status is
\* only logged; what matters is whether the call threw and whether the
\* response set cookies
BootstrapOutcomes == {"neterr", "cookies", "nocookies"}

\* getcrumb: threw, or a response [ok, cookies set, body text after trim()]
CrumbOutcome(kind, ok, cookies, text) ==
    [kind |-> kind, ok |-> ok, cookies |-> cookies, text |-> text]

CrumbOutcomes ==
    {CrumbOutcome("neterr", FALSE, FALSE, "")}
    \cup {CrumbOutcome("http", TRUE, c, t) : c \in BOOLEAN, t \in {"", "tok"}}
    \cup {CrumbOutcome("http", FALSE, c, "") : c \in BOOLEAN}

(***************************************************************************)
(* part_003: refreshYahooSession, getYahooSession, fetchYahooQuoteViaHttp. *)
(***************************************************************************)
\* refreshYahooSession up to its first await (line 104)
P3BeginRefresh(rq, sess, tag) ==
    [rq EXCEPT !.pc = "boot", !.tag = tag, !.collected = "none", !.threw = FALSE,
               !.prior = PriorOf(sess), !.failedRefresh = FALSE,
               !.nRefresh = @ + 1, !.refreshSince = @ + 1]

\* faulty variant: without a crumb the call fails before the request is sent
P3IssueFailClosed(rq, sess) ==
    IF sess.crumb = "none"
    THEN HandlerCatch(rq, 0)
    ELSE [rq EXCEPT !.pc = "quote", !.nQuote = @ + 1,
                    !.tries = IF rq.sent.host = YAHOO_HOSTS[rq.hostIndex + 1] THEN @ + 1 ELSE 1,
                    !.sent = [host |-> YAHOO_HOSTS[rq.hostIndex + 1],
                              cookie |-> sess.cookie, crumb |-> sess.crumb,
                              cookieBy |-> sess.cookieBy, crumbBy |-> sess.crumbBy]]

\* lines 167-182: build the request from the session and issue it
P3Issue(rq, sess) ==
    [rq EXCEPT !.pc = "quote", !.nQuote = @ + 1,
               !.tries = IF rq.sent.host = YAHOO_HOSTS[rq.hostIndex + 1] THEN @ + 1 ELSE 1,
               !.sent = [host |-> YAHOO_HOSTS[rq.hostIndex + 1],
                         cookie |-> sess.cookie, crumb |-> sess.crumb,
                         cookieBy |-> sess.cookieBy, crumbBy |-> sess.crumbBy]]

\* getYahooSession(forceRefresh), lines 150-153
P3SessionUsable(sess, forceRefresh) ==
    ~forceRefresh /\ sess.crumb # "none" /\ sess.expiresIn > 0

\* faulty variant: a change of host starts the attempt count again
P3CallResetAttempt(rq, sess, attempt, hostIndex) ==
    LET a == IF hostIndex # rq.hostIndex THEN 0 ELSE attempt
        rq1 == [rq EXCEPT !.attempt = a, !.hostIndex = hostIndex, !.force = a > 0]
    IN IF P3SessionUsable(sess, a > 0)
       THEN P3Issue([rq1 EXCEPT !.failedRefresh = FALSE], sess)
       ELSE P3BeginRefresh(rq1, sess, "get")

\* faulty variant: one attempt count for all the requests
P3CallSharedCount(rq, sess, attempt, hostIndex) ==
    LET others == {req[x].attempt : x \in Clients}
        a == CHOOSE m \in others \cup {attempt} :
                \A n \in others \cup {attempt} : n <= m
        rq1 == [rq EXCEPT !.attempt = a, !.hostIndex = hostIndex, !.force = a > 0]
    IN IF P3SessionUsable(sess, a > 0)
       THEN P3Issue([rq1 EXCEPT !.failedRefresh = FALSE], sess)
       ELSE P3BeginRefresh(rq1, sess, "get")

\* fetchYahooQuoteViaHttp(symbol, attempt, hostIndex) up to its first network await
P3Call(rq, sess, attempt, hostIndex) ==
    LET forceRefresh == attempt > 0
        rq1 == [rq EXCEPT !.attempt = attempt, !.hostIndex = hostIndex,
                          !.force = forceRefresh]
    IN IF P3SessionUsable(sess, forceRefresh)
       THEN P3Issue([rq1 EXCEPT !.failedRefresh = FALSE], sess)
       ELSE P3BeginRefresh(rq1, sess, "get")

\* app.get('/api/quote'), lines 253-266
P3Start(r, q) ==
    /\ impl = "p3"
    /\ req[r].pc = "idle"
    /\ LET rq == [req[r] EXCEPT !.q = q, !.symbol = q.s, !.fresh = FreshValues(cache, q)]
           key == CacheKey(q.s)
       IN IF ~Truthy(q)
          THEN /\ req' = [req EXCEPT ![r] =
                            Respond(rq, 400, "Missing symbol query parameter", <<>>)]
               /\ cache' = cache
          ELSE IF q.kind # "string"
          THEN \* symbol.toUpperCase is not a function: the TypeError leaves the
               \* async handler before its try block; Express answers 500 or
               \* never answers, depending on its version
               /\ \E answered \in BOOLEAN :
                     req' = [req EXCEPT ![r] =
                               IF answered
                               THEN Respond(rq, 500, "Internal Server Error", <<>>)
                               ELSE [rq EXCEPT !.pc = "done"]]
               /\ cache' = cache
          ELSE IF CacheHas(cache, key)
          THEN /\ req' = [req EXCEPT ![r] =
                            Respond(rq, 200, "", <<CacheValue(cache, key)>>)]
               /\ cache' = CacheTouch(cache, key)
          ELSE /\ req' = [req EXCEPT ![r] =
                            P3Call([rq EXCEPT !.symbol = ToUpperCase(q.s)], session, 0, 0)]
               /\ cache' = cache
    /\ UNCHANGED <<ui, impl, session, score>>

\* the bootstrap call returns or throws: lines 104-121
P3Bootstrap(r, out) ==
    /\ impl = "p3"
    /\ req[r].pc = "boot"
    /\ req' = [req EXCEPT ![r] =
                 [@ EXCEPT !.pc = "crumb",
                           !.collected = IF out = "cookies" THEN "boot" ELSE "none",
                           !.threw = (out = "neterr")]]
    /\ UNCHANGED <<ui, impl, cache, session, score>>

\* lines 125-141: the session the refresh writes
P3RefreshedSession(r, rq, out) ==
    LET collectedCookies == IF out.kind = "http" /\ out.cookies THEN "crumb" ELSE rq.collected
        crumbText == IF out.kind = "http" /\ out.ok THEN out.text ELSE ""
    IN [cookie |-> collectedCookies,
        crumb |-> IF crumbText # "" THEN "tok" ELSE "none",
        expiresIn |-> SessionTtl,
        cookieBy |-> <<r, rq.nRefresh>>, crumbBy |-> <<r, rq.nRefresh>>]

\* the crumb call returns or throws; the refresh completes and its caller goes on
P3Crumb(r, out) ==
    /\ impl = "p3"
    /\ req[r].pc = "crumb"
    /\ LET sess == P3RefreshedSession(r, req[r], out)
           rq == [req[r] EXCEPT !.failedRefresh = (req[r].threw /\ out.kind = "neterr")]
       IN /\ session' = sess
          /\ req' = [req EXCEPT ![r] =
                       IF rq.tag = "get"
                       THEN P3Issue(rq, sess)
                       ELSE P3Call([rq EXCEPT !.retries = @ + 1], sess,
                                   rq.attempt + 1, rq.hostIndex)]
    /\ UNCHANGED <<ui, impl, cache, score>>

\* faulty variant: no status fails over to the next host
P3NoFailover(out) == FALSE

\* faulty variant: every error status fails over to the next host
P3AnyError(out) == out.status >= 400

\* line 207: resp.status >= 500
P3ServerError(out) == out.status >= 500

\* lines 225-230: the quote handed to the handler
P3Quote(result) ==
    Quote(result.symbol, result.regularMarketPrice, result.trailingPE, result.forwardPE)

\* the quote call returns or throws: lines 183-231, then the handler 267-287
P3QuoteResponse(r, out) ==
    /\ impl = "p3"
    /\ req[r].pc = "quote"
    /\ LET rq == [req[r] EXCEPT
                    !.lastOut = out, !.lastHost = req[r].hostIndex,
                    !.malformed = @ \/ out.body = "malformed", !.refreshSince = 0,
                    !.firstFail = IF @ = "none" THEN FailureClass(out) ELSE @,
                    !.authExhausted =
                        @ \/ (out.status \in {401, 403} /\ req[r].attempt >= MaxAttempt)]
           more == rq.hostIndex + 1 < Len(YAHOO_HOSTS)
           key == CacheKey(rq.q.s)
       IN IF out.kind = "neterr"
          THEN /\ req' = [req EXCEPT ![r] =
                            IF rq.attempt < MaxAttempt
                            THEN P3BeginRefresh(rq, session, "retry")
                            ELSE IF more
                                 THEN P3Call([rq EXCEPT !.failovers = @ + 1], session,
                                             rq.attempt, rq.hostIndex + 1)
                                 ELSE HandlerCatch(rq, 0)]
               /\ cache' = cache
          ELSE IF out.status \in {401, 403} /\ rq.attempt < MaxAttempt
          THEN /\ req' = [req EXCEPT ![r] = P3BeginRefresh(rq, session, "retry")]
               /\ cache' = cache
          ELSE IF P3ServerError(out) /\ more
          THEN /\ req' = [req EXCEPT ![r] =
                            P3Call([rq EXCEPT !.failovers = @ + 1], session,
                                   rq.attempt, rq.hostIndex + 1)]
               /\ cache' = cache
          ELSE IF ~Ok(out)
          THEN /\ req' = [req EXCEPT ![r] = HandlerCatch(rq, out.status)]
               /\ cache' = cache
          ELSE IF out.body = "malformed"
          THEN /\ req' = [req EXCEPT ![r] = HandlerCatch(rq, 0)]
               /\ cache' = cache
          ELSE IF out.body = "empty"
          THEN /\ req' = [req EXCEPT ![r] = HandlerNotFound(rq)]
               /\ cache' = cache
          ELSE /\ req' = [req EXCEPT ![r] = HandlerSuccess("p3", rq, key, P3Quote(out.result))]
               /\ cache' = CacheSet(cache, key, HandlerPayload("p3", P3Quote(out.result)))
    /\ UNCHANGED <<ui, impl, session, score>>

(***************************************************************************)
(* index.js: refreshSession, yahooFetch, fetchYahooQuote.                  *)
(***************************************************************************)
\* refreshSession up to its first await (line 221)
IxBeginRefresh(rq, sess, tag) ==
    [rq EXCEPT !.pc = "landing", !.tag = tag, !.force = (tag = "post401"),
               !.prior = PriorOf(sess), !.failedRefresh = FALSE,
               !.nRefresh = @ + 1, !.refreshSince = @ + 1]

\* yahooFetch lines 270-282: build the request from the session and issue it
IxIssue(rq, sess) ==
    [rq EXCEPT !.pc = "quote", !.nQuote = @ + 1,
               !.tries = IF rq.sent.host = YAHOO_HOSTS[rq.hostIndex + 1] THEN @ + 1 ELSE 1,
               !.sent = [host |-> YAHOO_HOSTS[rq.hostIndex + 1],
                         cookie |-> sess.cookie, crumb |-> sess.crumb,
                         cookieBy |-> sess.cookieBy, crumbBy |-> sess.crumbBy]]

\* yahooFetch line 266
IxNeedsRefresh(sess) == sess.cookie = "none" \/ sess.expiresIn = 0

\* yahooFetch(host, path, { useCrumb: true, retry }) up to its first network await
IxYahooFetch(rq, sess, retry) ==
    LET rq1 == [rq EXCEPT !.retry = retry]
    IN IF IxNeedsRefresh(sess)
       THEN IxBeginRefresh(rq1, sess, "pre")
       ELSE IxIssue([rq1 EXCEPT !.failedRefresh = FALSE], sess)

\* refreshSession returned: yahooFetch goes on at line 270 (called from line
\* 267) or calls itself with retry: false (line 290)
IxAfterRefresh(rq, sess) ==
    IF rq.tag = "pre" THEN IxIssue(rq, sess)
    ELSE IxYahooFetch([rq EXCEPT !.retries = @ + 1], sess, FALSE)

\* the catch block of refreshSession, lines 257-262
IxFailedSession(r, rq) ==
    [cookie |-> "none", crumb |-> "none", expiresIn |-> FailedSessionTtl,
     cookieBy |-> <<r, rq.nRefresh>>, crumbBy |-> <<r, rq.nRefresh>>]

\* lines 286-288
IxClearedSession == EmptySession

\* the for loop of fetchYahooQuote moves on (continue, or the catch at 334),
\* or ends and throws lastError (lines 340-343); status 0: no status
IxNextHost(rq, sess, status) ==
    IF rq.hostIndex + 1 < Len(YAHOO_HOSTS)
    THEN IxYahooFetch([rq EXCEPT !.hostIndex = @ + 1, !.failovers = @ + 1], sess, TRUE)
    ELSE HandlerCatch(rq, IF status # 0 THEN status ELSE 502)

\* app.get('/api/quote'), lines 371-384
IxStart(r, q) ==
    /\ impl = "ix"
    /\ req[r].pc = "idle"
    /\ LET symbol == Trim(q.s)
           rq == [req[r] EXCEPT !.q = q, !.symbol = symbol, !.fresh = FreshValues(cache, q)]
           key == CacheKey(symbol)
       IN IF symbol = <<>>
          THEN /\ req' = [req EXCEPT ![r] =
                            Respond(rq, 400, "Missing symbol query parameter", <<>>)]
               /\ cache' = cache
          ELSE IF CacheHas(cache, key)
          THEN /\ req' = [req EXCEPT ![r] =
                            Respond(rq, 200, "", <<CacheValue(cache, key)>>)]
               /\ cache' = CacheTouch(cache, key)
          ELSE /\ req' = [req EXCEPT ![r] = IxYahooFetch(rq, session, TRUE)]
               /\ cache' = cache
    /\ UNCHANGED <<ui, impl, session, score>>

\* the landing call returns or throws: lines 221-246
IxLanding(r, out) ==
    /\ impl = "ix"
    /\ req[r].pc = "landing"
    /\ LET rq == req[r]
           sess == IF out = "neterr" THEN IxFailedSession(r, rq)
                   ELSE IF out = "nocookies"
                   THEN [cookie |-> "none", crumb |-> "none",
                         expiresIn |-> SessionTtl,
                         cookieBy |-> <<r, rq.nRefresh>>, crumbBy |-> <<r, rq.nRefresh>>]
                   ELSE [session EXCEPT !.cookie = "landing",
                                        !.expiresIn = SessionTtl,
                                        !.cookieBy = <<r, rq.nRefresh>>]
       IN /\ session' = sess
          /\ req' = [req EXCEPT ![r] =
                       IF out = "cookies"
                       THEN [rq EXCEPT !.pc = "ixcrumb"]
                       ELSE IxAfterRefresh(
                                [rq EXCEPT !.failedRefresh = (out = "neterr")], sess)]
    /\ UNCHANGED <<ui, impl, cache, score>>

\* the crumb call returns or throws: lines 248-262
IxCrumb(r, out) ==
    /\ impl = "ix"
    /\ req[r].pc = "ixcrumb"
    /\ LET rq == [req[r] EXCEPT !.failedRefresh = (out.kind = "neterr")]
           sess == IF out.kind = "neterr" THEN IxFailedSession(r, rq)
                   ELSE [session EXCEPT
                            !.crumb = IF out.ok /\ out.text # "" THEN "tok" ELSE "none",
                            !.crumbBy = <<r, rq.nRefresh>>]
       IN /\ session' = sess
          /\ req' = [req EXCEPT ![r] = IxAfterRefresh(rq, sess)]
    /\ UNCHANGED <<ui, impl, cache, score>>

\* lines 328-333: the quote handed to the handler
IxQuote(result, symbol) ==
    Quote(ToUpperCase(IF result.symbol # <<>> THEN result.symbol ELSE symbol),
          result.regularMarketPrice,
          IF IsNumber(result.trailingPE) THEN result.trailingPE ELSE JNull,
          IF IsNumber(result.forwardPE) THEN result.forwardPE ELSE JNull)

\* the quote call returns or throws: yahooFetch 282-293, fetchYahooQuote
\* 303-343, then the handler 386-403
IxQuoteResponse(r, out) ==
    /\ impl = "ix"
    /\ req[r].pc = "quote"
    /\ LET rq == [req[r] EXCEPT
                    !.lastOut = out, !.lastHost = req[r].hostIndex,
                    !.malformed = @ \/ out.body = "malformed", !.refreshSince = 0,
                    !.firstFail = IF @ = "none" THEN FailureClass(out) ELSE @,
                    !.authExhausted = @ \/ (out.status \in {401, 403} /\ ~req[r].retry)]
           key == CacheKey(rq.symbol)
       IN IF out.kind = "neterr"
          THEN /\ req' = [req EXCEPT ![r] = IxNextHost(rq, session, 0)]
               /\ UNCHANGED <<cache, session>>
          ELSE IF out.status \in {401, 403} /\ rq.retry
          THEN /\ session' = IxClearedSession
               /\ req' = [req EXCEPT ![r] = IxBeginRefresh(rq, IxClearedSession, "post401")]
               /\ cache' = cache
          ELSE IF out.status = 404
          THEN /\ req' = [req EXCEPT ![r] = HandlerNotFound(rq)]
               /\ UNCHANGED <<cache, session>>
          ELSE IF ~Ok(out)
          THEN /\ req' = [req EXCEPT ![r] = IxNextHost(rq, session, out.status)]
               /\ UNCHANGED <<cache, session>>
          ELSE IF out.body = "malformed"
          THEN /\ req' = [req EXCEPT ![r] = IxNextHost(rq, session, 0)]
               /\ UNCHANGED <<cache, session>>
          ELSE IF out.body = "empty"
          THEN /\ req' = [req EXCEPT ![r] = HandlerNotFound(rq)]
               /\ UNCHANGED <<cache, session>>
          ELSE IF ~IsNumber(out.result.regularMarketPrice)
          THEN /\ req' = [req EXCEPT ![r] = IxNextHost(rq, session, 0)]
               /\ UNCHANGED <<cache, session>>
          ELSE /\ req' = [req EXCEPT ![r] =
                            HandlerSuccess("ix", rq, key, IxQuote(out.result, rq.symbol))]
               /\ cache' = CacheSet(cache, key,
                                    HandlerPayload("ix", IxQuote(out.result, rq.symbol)))
               /\ session' = session
    /\ UNCHANGED <<ui, impl, score>>

(***************************************************************************)
(* The environment: the clock, and a client slot taking its next request.  *)
(***************************************************************************)
\* a stale entry is invisible to has() and get() and is replaced by set():
\* here the clock drops it at the tick that makes it stale (TickLazy below
\* keeps it, as lru-cache does until the key is set again)
Aged(c) ==
    LET older == [i \in 1..Len(c) |-> [c[i] EXCEPT !.age = @ + Granule]]
        Fresh(e) == ~CacheStale(e)
    IN SelectSeq(older, Fresh)

Tick ==
    /\ \A r \in Clients : req[r].pc # "done"
    /\ session.expiresIn > 0 \/ cache # <<>>
    /\ session' = [session EXCEPT !.expiresIn = IF @ > Granule THEN @ - Granule ELSE 0]
    /\ cache' = Aged(cache)
    /\ UNCHANGED <<ui, impl, req, score>>

\* refreshes of a finished request are no longer told apart
Forget(by, r) == IF by[1] = r THEN OldRefresh ELSE by

Recycle(r) ==
    /\ req[r].pc = "done"
    /\ req' = [req EXCEPT ![r] = IdleReq]
    /\ session' = [session EXCEPT !.cookieBy = Forget(@, r), !.crumbBy = Forget(@, r)]
    /\ UNCHANGED <<ui, impl, cache, score>>

\* other is a second value for one argument; resultOther, swapped and
\* swappedOther are the scores with other as first argument, with the
\* arguments exchanged, and with other as second argument
NoScore ==
    [pe |-> JUndef, forwardPE |-> JUndef, other |-> JUndef, called |-> FALSE,
     result |-> RInt(0), resultOther |-> RInt(0),
     swapped |-> RInt(0), swappedOther |-> RInt(0)]

(***************************************************************************)
(* The page: App.tsx.  ui holds the component state (query, loading,       *)
(* error, data), the searches awaiting the backend, and the number of      *)
(* searches submitted; by names the search that set a value.               *)
(***************************************************************************)
\* useState initial values, App.tsx 10-13
NoUi ==
    [query |-> <<>>, loading |-> FALSE, error |-> JNull, data |-> JNull,
     searches |-> {}, submitted |-> 0]

\* texts typed in the input
UiQueries == {<<>>, <<" ">>, <<"a">>}

\* fetch resolves with a 2xx response, resolves with another status, rejects
FetchOutcomes == {"ok", "notok", "reject"}

\* resp.json() resolves or rejects
BodyOutcomes == {"json", "reject"}

\* onChange, App.tsx 54
SetQuery(q) ==
    /\ q # ui.query
    /\ ui' = [ui EXCEPT !.query = q]
    /\ UNCHANGED <<impl, cache, session, req, score>>

\* handleSearch up to the fetch, App.tsx 15-21; started by Enter (35-39) or
\* by the button, which is disabled while loading (58-60)
HandleSearch(via) ==
    /\ via = "click" => ~ui.loading
    /\ Trim(ui.query) # <<>>
    /\ ui.submitted < MaxSearches
    /\ ui' = [ui EXCEPT
                 !.loading = TRUE, !.error = JNull, !.data = JNull,
                 !.submitted = @ + 1,
                 !.searches = @ \cup {[id |-> ui.submitted + 1, symbol |-> Trim(ui.query),
                                       pc |-> "fetch", ok |-> FALSE]}]
    /\ UNCHANGED <<impl, cache, session, req, score>>

\* catch and finally, App.tsx 28-32
UiFail(s, message) ==
    [ui EXCEPT !.error = [t |-> "error", by |-> s.id, message |-> message],
               !.loading = FALSE,
               !.searches = @ \ {s}]

\* the fetch of line 21 settles
FetchReturns(s, out) ==
    /\ s \in ui.searches
    /\ s.pc = "fetch"
    /\ ui' = IF out = "reject" THEN UiFail(s, "Failed to fetch")
             ELSE [ui EXCEPT !.searches = (@ \ {s}) \cup {[s EXCEPT !.pc = "body", !.ok = (out = "ok")]}]
    /\ UNCHANGED <<impl, cache, session, req, score>>

\* resp.json() of line 23 or 26 settles, App.tsx 22-32
BodyReturns(s, out) ==
    /\ s \in ui.searches
    /\ s.pc = "body"
    /\ ui' = IF out = "reject" THEN UiFail(s, "Unexpected token")
             ELSE IF ~s.ok THEN UiFail(s, "Request failed")
             ELSE [ui EXCEPT !.data = [t |-> "quote", by |-> s.id, symbol |-> s.symbol],
                             !.loading = FALSE,
                             !.searches = @ \ {s}]
    /\ UNCHANGED <<impl, cache, session, req, score>>

InitUi ==
    /\ ui = NoUi
    /\ impl \in Impls
    /\ cache = <<>>
    /\ session = EmptySession
    /\ req = [r \in {"c1"} |-> IdleReq]
    /\ score = NoScore

NextUi ==
    \/ \E q \in UiQueries : SetQuery(q)
    \/ \E via \in {"enter", "click"} : HandleSearch(via)
    \/ \E s \in ui.searches, out \in FetchOutcomes : FetchReturns(s, out)
    \/ \E s \in ui.searches, out \in BodyOutcomes : BodyReturns(s, out)

SpecUi == InitUi /\ [][NextUi]_vars

Init ==
    /\ ui = NoUi
    /\ impl \in Impls
    /\ cache = <<>>
    /\ session = EmptySession
    /\ req = [r \in {"c1"} |-> IdleReq]
    /\ score = NoScore

Next ==
    \/ \E r \in Clients, q \in QueryInputs : P3Start(r, q)
    \/ \E r \in Clients, out \in BootstrapOutcomes : P3Bootstrap(r, out)
    \/ \E r \in Clients, out \in CrumbOutcomes : P3Crumb(r, out)
    \/ \E r \in Clients, out \in QuoteOutcomes : P3QuoteResponse(r, out)
    \/ \E r \in Clients, q \in QueryInputs : IxStart(r, q)
    \/ \E r \in Clients, out \in BootstrapOutcomes : IxLanding(r, out)
    \/ \E r \in Clients, out \in CrumbOutcomes : IxCrumb(r, out)
    \/ \E r \in Clients, out \in QuoteOutcomes : IxQuoteResponse(r, out)
    \/ \E r \in Clients : Recycle(r)
    \/ Tick

Spec == Init /\ [][Next]_vars

(***************************************************************************)
(* Two requests for the same symbol in flight at once, each client making  *)
(* one request, on fewer upstream answers.                                 *)
(***************************************************************************)
ConcQueries == {Query("string", <<"a">>)}

ConcBootstraps == {"cookies"}

ConcCrumbs == {CrumbOutcome("http", TRUE, TRUE, "tok")}

ConcQuotes ==
    {Outcome("http", 401, "none", NoResult),
     Outcome("http", 500, "none", NoResult),
     Outcome("http", 200, "result", Result(<<"A">>, Price, Num(RInt(25)), Num(RInt(20)))),
     Outcome("http", 200, "result", Result(<<"A">>, Price, Num(RInt(10)), Num(RInt(20))))}

InitConc ==
    /\ ui = NoUi
    /\ impl \in Impls
    /\ cache = <<>>
    /\ session = EmptySession
    /\ req = [r \in {"c1", "c2"} |-> IdleReq]
    /\ score = NoScore

NextConc ==
    \/ \E r \in Clients, q \in ConcQueries : P3Start(r, q)
    \/ \E r \in Clients, out \in ConcBootstraps : P3Bootstrap(r, out)
    \/ \E r \in Clients, out \in ConcCrumbs : P3Crumb(r, out)
    \/ \E r \in Clients, out \in ConcQuotes : P3QuoteResponse(r, out)
    \/ \E r \in Clients, q \in ConcQueries : IxStart(r, q)
    \/ \E r \in Clients, out \in ConcBootstraps : IxLanding(r, out)
    \/ \E r \in Clients, out \in ConcCrumbs : IxCrumb(r, out)
    \/ \E r \in Clients, out \in ConcQuotes : IxQuoteResponse(r, out)

SpecConc == InitConc /\ [][NextConc]_vars

(***************************************************************************)
(* One client asking again and again while the clock runs, with a cache    *)
(* that keeps its stale entries until the key is set again, as lru-cache   *)
(* does.                                                                   *)
(***************************************************************************)
\* entries age with the clock; the age of a stale entry is not counted on
AgedLazy(c) ==
    [i \in 1..Len(c) |->
        [c[i] EXCEPT !.age = IF @ > CacheTtl THEN @ ELSE @ + Granule]]

TickLazy ==
    /\ \A r \in Clients : req[r].pc # "done"
    /\ session.expiresIn > 0 \/ AgedLazy(cache) # cache
    /\ session' = [session EXCEPT !.expiresIn = IF @ > Granule THEN @ - Granule ELSE 0]
    /\ cache' = AgedLazy(cache)
    /\ UNCHANGED <<ui, impl, req, score>>

NextTtl ==
    \/ NextConc
    \/ \E r \in Clients : Recycle(r)
    \/ TickLazy

SpecTtl == Init /\ [][NextTtl]_vars

(***************************************************************************)
(* One request from its arrival to its answer, while the clock runs on:    *)
(* an upstream call that is awaited may return, fail, or never do either.  *)
(***************************************************************************)
Returns ==
    \/ \E r \in Clients, out \in BootstrapOutcomes : P3Bootstrap(r, out)
    \/ \E r \in Clients, out \in CrumbOutcomes : P3Crumb(r, out)
    \/ \E r \in Clients, out \in QuoteOutcomes : P3QuoteResponse(r, out)
    \/ \E r \in Clients, out \in BootstrapOutcomes : IxLanding(r, out)
    \/ \E r \in Clients, out \in CrumbOutcomes : IxCrumb(r, out)
    \/ \E r \in Clients, out \in QuoteOutcomes : IxQuoteResponse(r, out)

NextCall ==
    \/ \E r \in Clients, q \in QueryInputs : P3Start(r, q)
    \/ \E r \in Clients, q \in QueryInputs : IxStart(r, q)
    \/ Returns
    \/ Tick

SpecHang == Init /\ [][NextCall]_vars /\ WF_vars(Tick)

(***************************************************************************)
(* computeScore on its own: the inputs are drawn in the initial state and  *)
(* one step applies the function.                                          *)
(***************************************************************************)
PEInputs ==
    {JNull, JUndef, JStr} \cup {Num(RInt(k)) : k \in (-MaxPE..MaxPE) \cup {10, 20}}

InitScore ==
    /\ ui = NoUi
    /\ impl \in Impls
    /\ cache = <<>>
    /\ session = EmptySession
    /\ req = [r \in {"c1"} |-> IdleReq]
    /\ score \in {[NoScore EXCEPT !.pe = a, !.forwardPE = b] : a, b \in PEInputs}

ScoreCall ==
    /\ ~score.called
    /\ score' = [score EXCEPT !.called = TRUE,
                              !.result = computeScore(impl, score.pe, score.forwardPE)]
    /\ UNCHANGED <<ui, impl, cache, session, req>>

NextScore == ScoreCall

SpecScore == InitScore /\ [][NextScore]_vars

(***************************************************************************)
(* computeScore on two values a <= a' of one ratio, as first and as second *)
(* argument, the other argument fixed.                                     *)
(***************************************************************************)
PositiveInputs == {x \in PEInputs : IsNumber(x) /\ RLt(RInt(0), x.v)}

InitMono ==
    /\ ui = NoUi
    /\ impl \in Impls
    /\ cache = <<>>
    /\ session = EmptySession
    /\ req = [r \in {"c1"} |-> IdleReq]
    /\ score \in {sc \in {[NoScore EXCEPT !.pe = a, !.other = a2, !.forwardPE = b] :
                               a \in PositiveInputs, a2 \in PositiveInputs, b \in PEInputs} :
                     RLe(sc.pe.v, sc.other.v)}

MonoCall ==
    /\ ~score.called
    /\ score' = [score EXCEPT
                    !.called = TRUE,
                    !.result = computeScore(impl, score.pe, score.forwardPE),
                    !.resultOther = computeScore(impl, score.other, score.forwardPE),
                    !.swapped = computeScore(impl, score.forwardPE, score.pe),
                    !.swappedOther = computeScore(impl, score.forwardPE, score.other)]
    /\ UNCHANGED <<ui, impl, cache, session, req>>

NextMono == MonoCall

SpecMono == InitMono /\ [][NextMono]_vars

(***************************************************************************)
(* Properties.                                                             *)
(***************************************************************************)
Answered(r) == req[r].pc = "done"
Answer(r) == req[r].responses[1]
StringQuery(r) == req[r].q.kind = "string" /\ req[r].q.s # <<>>
ExpectedKey(r) == <<"quote:">> \o ToUpperCase(req[r].q.s)

\* C1: a request whose key "quote:" + uppercase(symbol) has an unexpired
\* cache entry is answered 200 with exactly that value, and makes no upstream
\* call: no session refresh and no quote fetch.
C1_CacheHitNoUpstream ==
    \A r \in Clients :
        (Answered(r) /\ StringQuery(r) /\ req[r].fresh # <<>>) =>
            /\ req[r].responses = <<Response(200, "", req[r].fresh)>>
            /\ req[r].nRefresh = 0
            /\ req[r].nQuote = 0
            /\ req[r].writes = <<>>

C1_Witness ==
    \E r \in Clients : Answered(r) /\ StringQuery(r) /\ req[r].fresh # <<>>

\* C2: a request whose entry is absent or expired and whose fetch succeeds
\* writes the cache exactly once, under "quote:" + uppercase(symbol), and the
\* value written is the record returned to the caller.
C2_MissWritesOnce ==
    \A r \in Clients :
        (Answered(r) /\ StringQuery(r) /\ req[r].fresh = <<>>
            /\ Len(req[r].responses) = 1 /\ Answer(r).status = 200) =>
            /\ Len(req[r].writes) = 1
            /\ req[r].writes[1].key = ExpectedKey(r)
            /\ <<req[r].writes[1].value>> = Answer(r).body
            /\ \E i \in 1..Len(cache) :
                  /\ cache[i].key = ExpectedKey(r)
                  /\ <<cache[i].value>> = Answer(r).body
                  /\ cache[i].age = 0

C2_Witness ==
    \E r \in Clients :
        /\ Answered(r) /\ req[r].q = Query("string", <<"a">>) /\ req[r].fresh = <<>>
        /\ Len(req[r].responses) = 1 /\ Answer(r).status = 200

\* C3: every request ends with exactly one response, of status 200, 400,
\* 404 or 502; before that it has sent none.
C3_OneResponseKnownStatus ==
    \A r \in Clients :
        /\ ~Answered(r) => req[r].responses = <<>>
        /\ Answered(r) =>
              /\ Len(req[r].responses) = 1
              /\ Answer(r).status \in {200, 400, 404, 502}

\* C4: an upstream 404 ends the fetch at once as not found (HTTP 404): no
\* retry, no session refresh, no failover follows it.
C4_NotFoundEndsAtOnce ==
    \A r \in Clients :
        req[r].lastOut.status = 404 =>
            /\ Answered(r)
            /\ req[r].responses = <<Response(404, "Ticker not found", <<>>)>>

C4_Witness ==
    \E r \in Clients :
        /\ req[r].lastOut.status = 404
        /\ req[r].hostIndex + 1 < Len(YAHOO_HOSTS)
        /\ req[r].attempt < MaxAttempt
        /\ req[r].nQuote = 1

\* C5: between a 401 or 403 response and the next quote attempt of the same
\* call exactly one session refresh is performed.
C5_OneRefreshAfter401 ==
    \A r \in Clients :
        (req[r].pc = "quote" /\ req[r].lastOut.status \in {401, 403}) =>
            req[r].refreshSince = 1

\* C6: a call whose last permitted attempt after a 401/403 is again answered
\* 401 or 403 ends as a client error, HTTP 400, whatever the remaining hosts
\* answer.
C6_AuthExhaustedIs400 ==
    \A r \in Clients :
        (Answered(r) /\ req[r].authExhausted) =>
            (Len(req[r].responses) = 1 /\ Answer(r).status = 400)

\* C7: when a refresh fails (its network calls throw) and the session is
\* still the initial empty one, the error propagates: no quote request is
\* issued on the result of that refresh.
C7_FailedRefreshPropagates ==
    \A r \in Clients :
        ~(req[r].pc = "quote" /\ req[r].failedRefresh
            /\ req[r].prior = PriorOf(EmptySession))

\* C8: when a non-forced refresh fails and an expired session with a cookie
\* and a crumb exists, the request goes on with that session's cookie and
\* crumb, and the slot still holds them.
C8_StaleSessionKept ==
    \A r \in Clients :
        (req[r].pc = "quote" /\ req[r].failedRefresh /\ ~req[r].force
            /\ req[r].prior.expired
            /\ req[r].prior.cookie # "none" /\ req[r].prior.crumb # "none") =>
            /\ req[r].sent.cookie = req[r].prior.cookie
            /\ req[r].sent.crumb = req[r].prior.crumb
            /\ session.cookie = req[r].prior.cookie
            /\ session.crumb = req[r].prior.crumb

\* the reference of C9: 50 when no input is a strictly positive number,
\* otherwise clamp(round(100 * mean of the reciprocals of the strictly
\* positive inputs), 0, 100)
RefPositive(x) == x.t = "number" /\ x.v[1] > 0

RefScore(a, b) ==
    LET terms == (IF RefPositive(a) THEN <<RInv(a.v)>> ELSE <<>>)
                 \o (IF RefPositive(b) THEN <<RInv(b.v)>> ELSE <<>>)
        scaled == RMulInt(RDivInt(RSum(terms), Len(terms)), 100)
        rounded == RRound(scaled)
    IN IF terms = <<>> THEN 50
       ELSE IF rounded < 0 THEN 0 ELSE IF rounded > 100 THEN 100 ELSE rounded

\* C9: computeScore(trailingPE, forwardPE) equals the reference for every
\* pair of inputs.
C9_ScoreEqualsReference ==
    score.called => score.result = RInt(RefScore(score.pe, score.forwardPE))

\* C10: every record written to the cache or returned with status 200
\* carries a score in [0, 100].
InRange(sc) == RLe(RInt(0), sc) /\ RLe(sc, RInt(100))

C10_ScoreInRange ==
    /\ \A i \in 1..Len(cache) : InRange(cache[i].value.score)
    /\ \A r \in Clients :
          \A i \in 1..Len(req[r].responses) :
              req[r].responses[i].status = 200 =>
                  InRange(req[r].responses[i].body[1].score)

C10_Witness ==
    \E r \in Clients :
        /\ Answered(r) /\ req[r].fresh = <<>> /\ Len(req[r].responses) = 1
        /\ Answer(r).status = 200
        /\ Answer(r).body[1].forwardPE = Num(<<1, 200>>)
        /\ Answer(r).body[1].score = RInt(100)
        /\ \E i \in 1..Len(cache) : cache[i].value = Answer(r).body[1]

\* C11: no record whose price is not a number is ever written to the cache
\* or returned with status 200.
C11_PriceIsNumber ==
    /\ \A i \in 1..Len(cache) : IsNumber(cache[i].value.price)
    /\ \A r \in Clients :
          /\ \A i \in 1..Len(req[r].writes) : IsNumber(req[r].writes[i].value.price)
          /\ \A i \in 1..Len(req[r].responses) :
                req[r].responses[i].status = 200 =>
                    IsNumber(req[r].responses[i].body[1].price)

\* C12: a 429 answer is followed by a retry against the same host, and the
\* failure reaches the caller only after 3 such retries (4 requests to that
\* host).
C12_RateLimitRetried ==
    \A r \in Clients :
        req[r].lastOut.status = 429 =>
            /\ req[r].pc = "quote" => req[r].hostIndex = req[r].lastHost
            /\ Answered(r) => req[r].tries >= 1 + 3

\* C13: a request whose last upstream answer is 429 and that then gives up
\* is answered 502, not 400 and not 404.
C13_RateLimitIs502 ==
    \A r \in Clients :
        (Answered(r) /\ req[r].lastOut.status = 429) =>
            (Len(req[r].responses) = 1 /\ Answer(r).status = 502)

\* C14: when a host answers 500 or more and a later host of the list is
\* untried, the call is not answered yet and its next quote request is the
\* first one sent to the next host.
C14_ServerErrorFailsOver ==
    \A r \in Clients :
        (req[r].lastOut.kind = "http" /\ req[r].lastOut.status >= 500
            /\ req[r].lastHost + 1 < Len(YAHOO_HOSTS)) =>
            /\ ~Answered(r)
            /\ req[r].hostIndex = req[r].lastHost + 1
            /\ req[r].pc = "quote" =>
                  /\ req[r].sent.host = YAHOO_HOSTS[req[r].lastHost + 2]
                  /\ req[r].tries = 1

C14_Witness ==
    \E r \in Clients :
        /\ req[r].pc = "quote"
        /\ req[r].lastOut.status = 500 /\ req[r].lastHost = 0
        /\ req[r].sent.host = YAHOO_HOSTS[2]

\* C15: when the last host of the list answers 500 or more, the failure
\* reaches the caller only after the retries of the 429 policy (3) have been
\* made on that host.
C15_LastHostServerErrorRetried ==
    \A r \in Clients :
        (Answered(r) /\ req[r].lastOut.kind = "http" /\ req[r].lastOut.status >= 500
            /\ req[r].lastHost + 1 = Len(YAHOO_HOSTS)) =>
            req[r].tries >= 1 + 3

\* C16: after a network error of the quote request the call retries the same
\* host, after a session refresh, while its attempt count is below 2; it
\* moves to the next host only with the count at 2, and it answers only with
\* the count at 2 and no host left.  (index.js keeps no attempt count: a
\* host is tried at most twice there, so its count stays below 2.)
C16_NetworkErrorRetried ==
    \A r \in Clients :
        req[r].lastOut.kind = "neterr" =>
            /\ (req[r].pc = "quote" /\ req[r].hostIndex = req[r].lastHost) =>
                  req[r].refreshSince >= 1
            /\ req[r].hostIndex # req[r].lastHost => req[r].attempt >= MaxAttempt
            /\ Answered(r) =>
                  /\ req[r].attempt >= MaxAttempt
                  /\ req[r].lastHost + 1 = Len(YAHOO_HOSTS)

\* C17: a request that received a 200 answer whose body does not parse ends
\* with HTTP 502, never 400 or 404, and writes nothing to the cache.
C17_MalformedIs502 ==
    \A r \in Clients :
        (Answered(r) /\ req[r].malformed) =>
            /\ Len(req[r].responses) = 1 /\ Answer(r).status = 502
            /\ req[r].writes = <<>>

\* C18: a 200 answer with a parseable body and no result record ends the
\* fetch at once as not found (HTTP 404): no retry, no failover and no cache
\* write follow it.
C18_EmptyResultIsNotFound ==
    \A r \in Clients :
        req[r].lastOut.body = "empty" =>
            /\ Answered(r)
            /\ req[r].responses = <<Response(404, "Ticker not found", <<>>)>>
            /\ req[r].writes = <<>>
            /\ \A i \in 1..Len(cache) : cache[i].age = 0 => cache[i].key # ExpectedKey(r)

C18_Witness ==
    \E r \in Clients :
        /\ req[r].lastOut.body = "empty"
        /\ req[r].lastHost + 1 < Len(YAHOO_HOSTS)
        /\ req[r].attempt < MaxAttempt
        /\ req[r].nQuote = 1

\* C19: a non-forced getSession finding a session that has not expired
\* starts no refresh, whatever its cookie and crumb: every non-forced refresh
\* found the session expired.
C19_ValidSessionNoRefresh ==
    \A r \in Clients :
        (req[r].pc \in {"boot", "crumb", "landing", "ixcrumb"}
            /\ req[r].tag \in {"get", "pre"} /\ ~req[r].force) =>
            req[r].prior.expired

\* C20: a session without a crumb never stops the call: a request that
\* started obtaining a session is not answered before a quote request was
\* sent, and the quote request carries the crumb of the session, null
\* included.
C20_NullCrumbStillRequests ==
    \A r \in Clients :
        /\ (Answered(r) /\ req[r].nRefresh > 0) => req[r].nQuote > 0
        /\ req[r].pc = "quote" => req[r].sent.crumb = session.crumb

C20_Witness ==
    \E r \in Clients :
        /\ Answered(r) /\ req[r].nRefresh > 0 /\ req[r].nQuote = 1
        /\ req[r].sent.crumb = "none" /\ session.crumb = "none"
        /\ Len(req[r].responses) = 1 /\ Answer(r).status = 200

Missing(q) == q.kind = "undefined" \/ (q.kind = "string" /\ q.s = <<>>)

\* C21: a request without a symbol, or with an empty one, is answered 400
\* "Missing symbol query parameter"; the step that answers it leaves the
\* cache and the session as they were, and the request makes no upstream
\* call.
C21_MissingSymbolIs400 ==
    /\ [](\A r \in Clients :
            (Answered(r) /\ Missing(req[r].q)) =>
                /\ req[r].responses =
                       <<Response(400, "Missing symbol query parameter", <<>>)>>
                /\ req[r].nRefresh = 0 /\ req[r].nQuote = 0 /\ req[r].writes = <<>>)
    /\ [][\A r \in Clients :
            (req[r].pc = "idle" /\ req'[r].pc = "done" /\ Missing(req'[r].q)) =>
                (cache' = cache /\ session' = session)]_vars

C21_Witness ==
    \E r \in Clients :
        /\ Answered(r) /\ req[r].q = Query("string", <<>>)
        /\ cache # <<>> /\ session.cookie # "none"

\* C22: a response served from the cache comes from an entry that is at
\* most 5 minutes old; a request that finds only an older entry under its
\* key goes upstream.
C22_NoStaleServed ==
    \A r \in Clients :
        (Answered(r) /\ Len(req[r].responses) = 1 /\ Answer(r).status = 200) =>
            /\ req[r].nQuote = 0 =>
                  \E i \in 1..Len(cache) :
                      /\ cache[i].key = ExpectedKey(r)
                      /\ cache[i].age <= CacheTtl
                      /\ <<cache[i].value>> = Answer(r).body
            /\ req[r].fresh = <<>> => (req[r].nQuote >= 1 /\ Len(req[r].writes) = 1)

C22_Witness ==
    \E r \in Clients :
        /\ req[r].pc = "quote" /\ req[r].nQuote = 1
        /\ \E i \in 1..Len(cache) :
              cache[i].key = ExpectedKey(r) /\ cache[i].age > CacheTtl

\* C23: of the requests for one symbol that are in flight together, at most
\* one has a quote request upstream.
C23_OneFetchPerSymbol ==
    \A r1, r2 \in Clients :
        (req[r1].pc = "quote" /\ req[r2].pc = "quote"
            /\ ExpectedKey(r1) = ExpectedKey(r2)) => r1 = r2

\* C24: the cookie and the crumb a quote request carries were written by
\* the same refresh, or are both those of the initial empty session.
C24_SessionNotMixed ==
    \A r \in Clients :
        req[r].pc = "quote" => req[r].sent.cookieBy = req[r].sent.crumbBy

\* C25: a call makes one quote request, plus one for each retry and each
\* change of host it has made; retries are at most 2 and the host changes
\* once at most, so the call sends at most 4 quote requests, and at most 2
\* session refreshes go before each of them: every call ends after a bounded
\* number of upstream calls.
C25_BoundedCall ==
    \A r \in Clients :
        /\ req[r].nQuote <= 1 + req[r].retries + req[r].failovers
        /\ req[r].retries <= MaxAttempt
        /\ req[r].failovers <= Len(YAHOO_HOSTS) - 1
        /\ req[r].nQuote <= 4
        /\ req[r].nRefresh <= 2 * (req[r].nQuote + 1)

C25_Witness ==
    \E r \in Clients : Answered(r) /\ req[r].nQuote = 4

PairsOf(c) == {<<c[i].key, c[i].value>> : i \in 1..Len(c)}

\* a step that appends to the writes of a request leaves that record under
\* its key; any other step leaves every entry as it was
WriteStep ==
    /\ \A w \in Clients :
          req'[w].writes # req[w].writes =>
              LET rec == req'[w].writes[Len(req'[w].writes)]
              IN /\ \E i \in 1..Len(cache') : cache'[i].key = rec.key
                 /\ \A j \in 1..Len(cache') :
                       cache'[j].key = rec.key => cache'[j].value = rec.value
    /\ (\A x \in Clients : req'[x].writes = req[x].writes) =>
          PairsOf(cache') = PairsOf(cache)

\* C26: each request that fetches successfully writes the cache once; a
\* write makes the entry under its key the record written, and the entries
\* change in no other step: the entry is the record of the latest write.
C26_LastWriteWins ==
    /\ [](\A r \in Clients :
            (Answered(r) /\ req[r].nQuote > 0 /\ Len(req[r].responses) = 1
                /\ Answer(r).status = 200) => Len(req[r].writes) = 1)
    /\ [][WriteStep]_vars

C26_Witness ==
    \E r1, r2 \in Clients :
        /\ r1 # r2 /\ Answered(r1) /\ Answered(r2)
        /\ req[r1].fresh = <<>> /\ req[r2].fresh = <<>>
        /\ Len(req[r1].writes) = 1 /\ Len(req[r2].writes) = 1
        /\ req[r1].writes[1].value # req[r2].writes[1].value
        /\ Len(cache) = 1 /\ cache[1].value = req[r2].writes[1].value

\* C27: a session is obtained with a forced refresh only when the attempt
\* before it, in the same call, was answered 401 or 403.
C27_ForcedOnlyAfterAuth ==
    \A r \in Clients :
        (\/ req[r].pc \in {"boot", "crumb"} /\ req[r].tag = "get" /\ req[r].force
         \/ req[r].pc \in {"landing", "ixcrumb"} /\ req[r].tag = "post401") =>
            (req[r].lastOut.kind = "http" /\ req[r].lastOut.status \in {401, 403})

\* C28: the status a failed request is answered with has the class of the
\* first upstream failure of the call: after a first failure 401 or 403
\* never 502 or 404, after a first failure 5xx or network error never 400.
C28_FirstFailureClassKept ==
    \A r \in Clients :
        (Answered(r) /\ Len(req[r].responses) = 1) =>
            /\ req[r].firstFail = "auth" => Answer(r).status \notin {502, 404}
            /\ req[r].firstFail = "server" => Answer(r).status # 400

InFlight == \E r \in Clients : req[r].pc \notin {"idle", "done"}

\* C29: every request that was received is answered in the end, even when
\* an upstream call it awaits never returns.
C29_AnsweredDespiteHang == InFlight ~> ~InFlight

\* C30: the attempt count and the host index of a request are those of its
\* own retries and host changes, and a step changes the record of one
\* request at most: what one request does leaves the counts of the others
\* as they are.
C30_RetryStateLocal ==
    /\ [](\A r \in Clients :
            /\ req[r].hostIndex = req[r].failovers
            /\ impl = "p3" => req[r].attempt = req[r].retries
            /\ impl = "ix" =>
                  /\ req[r].attempt = 0
                  /\ (~req[r].retry /\ ~Answered(r)) =>
                        /\ req[r].lastOut.status \in {401, 403}
                        /\ req[r].lastHost = req[r].hostIndex)
    /\ [][\A r1, r2 \in Clients :
            (r1 # r2 /\ req'[r1] # req[r1]) => req'[r2] = req[r2]]_vars

C30_Witness ==
    \E r1, r2 \in Clients :
        /\ r1 # r2
        /\ Answered(r1) /\ req[r1].retries = MaxAttempt
        /\ req[r2].pc = "quote" /\ req[r2].retries = MaxAttempt

EmptyBodyCrumbs == {o \in CrumbOutcomes : o.kind = "http" /\ o.ok /\ o.text = ""}

\* C31: a refresh whose crumb call answers with an empty body, after the
\* bootstrap (landing) call set cookies, leaves those cookies in the session
\* with a null crumb, and does not fail.
C31_EmptyCrumbKeepsCookies ==
    [][\A r \in Clients, out \in EmptyBodyCrumbs :
          /\ (P3Crumb(r, out) /\ req[r].collected = "boot") =>
                /\ session'.cookie = "boot"
                /\ session'.crumb = "none"
                /\ ~req'[r].failedRefresh
          /\ IxCrumb(r, out) =>
                /\ session'.cookie = session.cookie
                /\ session'.crumb = "none"
                /\ ~req'[r].failedRefresh]_vars

RefreshPcs == {"boot", "crumb", "landing", "ixcrumb"}

\* C32: a quote request is built either from a session that has not expired
\* or right after a refresh, and a refresh that completes leaves the session
\* with 30 minutes to live.
C32_FreshCredentials ==
    [][\A r \in Clients :
          /\ (req'[r].nQuote = req[r].nQuote + 1 /\ req[r].pc \notin RefreshPcs) =>
                session.expiresIn > 0
          /\ (req[r].pc \in RefreshPcs /\ req'[r].nRefresh = req[r].nRefresh
                /\ req'[r].pc \notin RefreshPcs) =>
                session'.expiresIn = SessionTtl]_vars

IsUpperCase(s) == s # <<>> /\ ToUpperCase(s) = s

\* C33: every record written to the cache or returned with status 200 has
\* its symbol in upper case.
C33_SymbolUpperCase ==
    /\ \A i \in 1..Len(cache) : IsUpperCase(cache[i].value.symbol)
    /\ \A r \in Clients :
          \A i \in 1..Len(req[r].responses) :
              req[r].responses[i].status = 200 =>
                  IsUpperCase(req[r].responses[i].body[1].symbol)

\* C34: a request answered 404, 400 or 502 has written nothing to the
\* cache, and the step that answers it leaves the cache as it was.
C34_FailuresNotCached ==
    /\ [](\A r \in Clients :
            (Answered(r) /\ Len(req[r].responses) = 1
                /\ Answer(r).status \in {404, 400, 502}) => req[r].writes = <<>>)
    /\ [][\A r \in Clients :
            (req[r].pc # "done" /\ req'[r].pc = "done" /\ Len(req'[r].responses) = 1
                /\ req'[r].responses[1].status \in {404, 400, 502}) =>
                cache' = cache]_vars

C34_Witness ==
    \E r \in Clients :
        /\ Answered(r) /\ req[r].nQuote > 0
        /\ Len(req[r].responses) = 1 /\ Answer(r).status = 404
        /\ cache = <<>>

\* C35: one call of fetchYahooQuoteViaHttp (part_003) performs at most 6
\* session refreshes.
C35_AtMostSixRefreshes ==
    \A r \in Clients : impl = "p3" => req[r].nRefresh <= 6

C35_Witness ==
    \E r \in Clients : impl = "p3" /\ req[r].nRefresh = 6 /\ req[r].nQuote = 4

\* C36: for positive a <= a' and any fixed other argument, computeScore at
\* a is at least computeScore at a', in the first argument and in the second.
C36_ScoreMonotone ==
    score.called =>
        /\ RLe(score.resultOther, score.result)
        /\ RLe(score.swappedOther, score.swapped)

C36_Witness ==
    /\ score.called
    /\ RLt(score.resultOther, score.result)
    /\ RLt(score.swappedOther, score.swapped)
    /\ RLt(score.pe.v, score.other.v)

\* C37: in the page, error and data are never both non-null, whatever the
\* interleaving of overlapping searches.
C37_ErrorXorData == ~(ui.error # JNull /\ ui.data # JNull)

\* C38: loading is true whenever a search is in flight, and once every
\* submitted search has completed the displayed data or error is the
\* outcome of the most recently submitted search.
C38_LatestSearchShown ==
    /\ ui.searches # {} => ui.loading
    /\ (ui.searches = {} /\ ui.submitted > 0) =>
          /\ ui.error # JNull \/ ui.data # JNull
          /\ ui.error # JNull => ui.error.by = ui.submitted
          /\ ui.data # JNull => ui.data.by = ui.submitted

====
